---------------------------- MODULE Spec2Model ----------------------------
(***************************************************************************)
(* PAGASA advisory watcher (src/src/main.py).                              *)
(*                                                                         *)
(* One run of main(): check the configuration, fetch the page, load the    *)
(* previous snapshot (weather_data.json), extract every section of DIV_IDS *)
(* with parse_div_content, decide per section whether to notify, send the  *)
(* queued notifications with asyncio.gather, save the snapshot.            *)
(*                                                                         *)
(* Text is a sequence of tokens.  A token is one character (SP, NL, "a")   *)
(* or a fixed phrase of the program ("could not be found", ...) that the   *)
(* program searches for as a substring.                                    *)
(***************************************************************************)
EXTENDS Integers, Sequences, FiniteSets, TLC

VARIABLES
    pc,                     \* position of main() in the current run
    outcome,                \* how the last finished run ended
    file,                   \* weather_data.json on disk
    file_at_start,          \* history: the file as it was when the run began
    last_good,              \* history: per section, last real text persisted
    html_content,           \* result of fetch_website_content
    fetches,                \* history: fetch attempts of this run
    previous_data,          \* main: previous_data
    is_first_overall_run,   \* main: is_first_overall_run
    current_data,           \* main: current_data
    notifications_to_send,  \* main: notifications_to_send
    idx,                    \* position of the for loop over DIV_IDS
    tasks,                  \* the send_telegram_message coroutines in flight
    x_html, x_div, x_out    \* input and output of one parse_div_content call

vars == <<pc, outcome, file, file_at_start, last_good, html_content, fetches,
          previous_data, is_first_overall_run, current_data,
          notifications_to_send, idx, tasks, x_html, x_div, x_out>>

run_vars == <<pc, outcome, file, file_at_start, last_good, html_content,
              fetches, previous_data, is_first_overall_run, current_data,
              notifications_to_send, idx, tasks>>

x_vars == <<x_html, x_div, x_out>>

---------------------------------------------------------------------------
(* Text *)

SP == " "
NL == "\n"
Whitespace == {SP, NL}

None == <<"<None>">>

Max(S) == CHOOSE m \in S : \A n \in S : n <= m
Min(S) == CHOOSE m \in S : \A n \in S : m <= n

\* `sub in s` of Python, on token sequences
Contains(s, sub) ==
    \E i \in 0..(Len(s) - Len(sub)) :
        \A j \in 1..Len(sub) : s[i + j] = sub[j]

\* str.split('\n')
RECURSIVE split(_)
split(s) ==
    IF \A i \in 1..Len(s) : s[i] # NL
    THEN <<s>>
    ELSE LET i == Min({k \in 1..Len(s) : s[k] = NL})
         IN  <<SubSeq(s, 1, i - 1)>> \o split(SubSeq(s, i + 1, Len(s)))

\* str.strip()
strip(s) ==
    LET keep == {i \in 1..Len(s) : s[i] \notin Whitespace}
    IN  IF keep = {} THEN <<>> ELSE SubSeq(s, Min(keep), Max(keep))

\* "\n".join(lines)
RECURSIVE join(_)
join(lines) ==
    IF Len(lines) = 0 THEN <<>>
    ELSE IF Len(lines) = 1 THEN lines[1]
    ELSE lines[1] \o <<NL>> \o join(Tail(lines))

\* re.sub(r'\n\s*\n+', '\n\n', s), scanning s from position i: a match starts
\* at a newline, runs over the whitespace after it and ends at the last
\* newline of that whitespace; it is replaced by two newlines.
RECURSIVE re_sub_from(_, _)
re_sub_from(s, i) ==
    IF i > Len(s) THEN <<>>
    ELSE IF s[i] # NL THEN <<s[i]>> \o re_sub_from(s, i + 1)
    ELSE LET ws  == {j \in i..Len(s) :
                        \A k \in (i + 1)..j : s[k] \in Whitespace}
             nls == {j \in ws : j > i /\ s[j] = NL}
         IN  IF nls = {}
             THEN <<s[i]>> \o re_sub_from(s, i + 1)
             ELSE <<NL, NL>> \o re_sub_from(s, Max(nls) + 1)

re_sub(s) == re_sub_from(s, 1)

---------------------------------------------------------------------------
(* Configuration *)

DivOrder == <<"rainfalls", "thunderstorms">>

DIV_IDS == [d \in {"rainfalls", "thunderstorms"} |->
               IF d = "rainfalls" THEN "Rainfall Advisory"
                                  ELSE "Thunderstorm Advisory/Watch"]

DivIds == DOMAIN DIV_IDS

\* DIV_IDS.get(div_id, div_id)
advisory_name(div_id) ==
    IF div_id \in DOMAIN DIV_IDS THEN DIV_IDS[div_id] ELSE div_id

NotFoundMsg(div_id) ==
    <<"The section for ", advisory_name(div_id), SP,
      "could not be found", " on the page.">>

CriticalMsg(div_id) ==
    <<"Critical parsing", " error: No content source for ",
      advisory_name(div_id), ".">>

ParseErrorMsg(div_id) ==
    <<"Error parsing", " content for ", advisory_name(div_id), ".">>

ErrMsgs == {<<"could not be found">>, <<"Error parsing">>,
            <<"Critical parsing">>}

---------------------------------------------------------------------------
(* parse_div_content *)

\* A node of the parsed page: a text node or comment (both NavigableString),
\* a <br>, a <div> with its own children, or another tag.
TextNode(t)    == [kind |-> "text",    text |-> t,    children |-> <<>>]
CommentNode(t) == [kind |-> "comment", text |-> t,    children |-> <<>>]
BrNode         == [kind |-> "br",      text |-> <<>>, children |-> <<>>]
TagNode(t)     == [kind |-> "tag",     text |-> t,    children |-> <<>>]
DivNode(c)     == [kind |-> "div",     text |-> <<>>, children |-> c]

IsNavigableString(element) == element.kind \in {"text", "comment"}

\* target_div.find("div", recursive=False): children of the content source
content_source_children(children) ==
    LET divs == {i \in 1..Len(children) : children[i].kind = "div"}
    IN  IF divs # {} THEN children[Min(divs)].children ELSE children

\* the loop over content_source_div.children, joined
RECURSIVE text_parts(_)
text_parts(children) ==
    IF Len(children) = 0 THEN <<>>
    ELSE LET element == Head(children)
             part == IF IsNavigableString(element) THEN element.text
                     ELSE IF element.kind = "br" THEN <<NL>>
                     ELSE <<>>
         IN  part \o text_parts(Tail(children))

stripped_lines(raw) ==
    LET lines == split(raw)
    IN  [i \in 1..Len(lines) |-> strip(lines[i])]

\* mutant: the final .strip() is left out
normalize_nostrip(raw) == re_sub(join(stripped_lines(raw)))

normalize(raw) == strip(re_sub(join(stripped_lines(raw))))

\* html is [raises, divs]: raises when BeautifulSoup fails on the markup,
\* divs maps the id of each <div id=...> of the page to its children.
parse_div_content(html, div_id) ==
    IF html.raises THEN ParseErrorMsg(div_id)
    ELSE IF div_id \notin DOMAIN html.divs THEN NotFoundMsg(div_id)
    ELSE normalize(text_parts(content_source_children(html.divs[div_id])))

---------------------------------------------------------------------------
(* The pages a run may fetch *)

Page(raises, divs) == [body |-> "markup", raises |-> raises, divs |-> divs]

\* fetch_website_content returned None / returned an empty response.text
NoneHtml  == [body |-> "none",  raises |-> FALSE, divs |-> <<>>]
EmptyBody == [body |-> "empty", raises |-> FALSE, divs |-> <<>>]

SuppressPhrases == {<<"NO ADVISORY">>}

\* the children of a section's <div> on the sampled pages
ChildrenSamples ==
    {<<DivNode(<<>>)>>,
     <<DivNode(<<TextNode(<<NL, SP, "a">>), BrNode>>)>>,
     <<TextNode(<<"b", SP, "NO ADVISORY">>)>>,
     <<TextNode(<<"a", SP, "Error parsing">>), BrNode, BrNode,
       TextNode(<<"b">>)>>}

Pages ==
    {Page(TRUE, <<>>)}
        \cup {Page(FALSE, divs) :
                 divs \in UNION {[present -> ChildrenSamples] :
                                    present \in SUBSET DivIds}}

FetchResults == {NoneHtml, EmptyBody} \cup Pages

---------------------------------------------------------------------------
(* The snapshot file *)

NoDict == <<>>

Absent      == [kind |-> "absent",  data |-> NoDict]
Corrupt     == [kind |-> "corrupt", data |-> NoDict]
JsonFile(d) == [kind |-> "json",    data |-> d]

\* os.path.exists(DATA_FILE)
path_exists(f) == f.kind # "absent"

load_previous_data(f) ==
    IF path_exists(f)
    THEN IF f.kind = "json" THEN f.data ELSE NoDict
    ELSE NoDict

\* dict.get(key)
dict_get(d, key) == IF key \in DOMAIN d THEN d[key] ELSE None

\* save_current_data: the write succeeds, open() fails and leaves the file
\* alone, or the write fails after open() truncated the file
SaveResults == {"ok", "open_fails", "dump_fails"}

\* mutant: sections with empty text are left out of the written file
save_nonempty(f, data, result) ==
    CASE result = "ok"         ->
            JsonFile([k \in {j \in DOMAIN data : data[j] # <<>>} |-> data[k]])
      [] result = "open_fails" -> f
      [] result = "dump_fails" -> Corrupt

save_current_data(f, data, result) ==
    CASE result = "ok"         -> JsonFile(data)
      [] result = "open_fails" -> f
      [] result = "dump_fails" -> Corrupt

---------------------------------------------------------------------------
(* The decisions of main's loop *)

\* the exclusion rule of the Change Filter
is_suppressed(content) ==
    \E phrase \in SuppressPhrases : Contains(content, phrase)

\* `content and not any(err_msg in content for err_msg in [...])`
valid_new_content(content) ==
    /\ content # <<>>
    /\ ~ \E err_msg \in ErrMsgs : Contains(content, err_msg)

\* mutant: the comparison with the previous text is left out
should_notify_valid(first_run, previous_content, content) ==
    valid_new_content(content)

\* mutant: a change out of an error text is not reported
should_notify_recover(first_run, previous_content, content) ==
    IF first_run THEN valid_new_content(content)
    ELSE IF previous_content = None THEN valid_new_content(content)
    ELSE IF content # previous_content
            /\ ~ \E err_msg \in ErrMsgs : Contains(previous_content, err_msg)
         THEN TRUE
    ELSE FALSE

should_notify(first_run, previous_content, content) ==
    IF first_run THEN valid_new_content(content)
    ELSE IF previous_content = None THEN valid_new_content(content)
    ELSE IF content # previous_content THEN TRUE
    ELSE FALSE

\* `if should_notify and content:`
queues(notify, content) == notify /\ content # <<>>

\* mutant: a suppressed section is skipped before its text is recorded
record_current_skip(data, div_id, content) ==
    IF is_suppressed(content) THEN data
    ELSE [k \in DOMAIN data \cup {div_id} |->
            IF k = div_id THEN content ELSE data[k]]

\* current_data[div_id] = content
record_current(data, div_id, content) ==
    [k \in DOMAIN data \cup {div_id} |->
        IF k = div_id THEN content ELSE data[k]]

---------------------------------------------------------------------------
(* send_telegram_message *)

Returned == {"sent", "failed", "skipped"}
Terminal == Returned \cup {"raised", "cancelled"}

NewTask(n) == [message |-> n.message, type |-> n.type, st |-> "pending"]

error_message == <<"Failed to fetch the latest weather data">>

\* the outcomes of one await bot.send_message(...)
SendResults == {"ok", "TelegramError", "Exception"}

\* up to the first await: the guard of line 137 cannot fire, main returned
\* at line 177 otherwise; Bot(token=...) is built outside any try; an empty
\* message is skipped at line 145
after_start(message_text, bot_raises) ==
    IF bot_raises THEN "raised"
    ELSE IF message_text = <<>> THEN "skipped"
    ELSE "md"

\* try: await bot.send_message(..., MARKDOWN_V2)
after_markdown(result) ==
    CASE result = "ok"            -> "sent"
      [] result = "TelegramError" -> "plain"
      [] result = "Exception"     -> "failed"

\* the fallback send, inside `except TelegramError`: only TelegramError is
\* caught there
after_plain(result) ==
    CASE result = "ok"            -> "sent"
      [] result = "TelegramError" -> "failed"
      [] result = "Exception"     -> "raised"

\* mutant: the wait ends with the first send that returns
any_returned(ts) == \E i \in 1..Len(ts) : ts[i].st \in Returned

\* asyncio.gather(...) returns to main
all_returned(ts) == \A i \in 1..Len(ts) : ts[i].st \in Returned

---------------------------------------------------------------------------
(* main *)

RunInit ==
    /\ outcome = "none"
    /\ file = Absent
    /\ file_at_start = Absent
    /\ last_good = [d \in DivIds |-> None]
    /\ html_content = NoneHtml
    /\ fetches = 0
    /\ previous_data = NoDict
    /\ is_first_overall_run = FALSE
    /\ current_data = NoDict
    /\ notifications_to_send = <<>>
    /\ idx = 1
    /\ tasks = <<>>

Init ==
    /\ RunInit
    /\ pc = "start"
    /\ x_div = "rainfalls"
    /\ x_html = NoneHtml
    /\ x_out = None

\* lines 173-177
CheckConfig ==
    /\ pc = "start"
    /\ \E configured \in BOOLEAN :
          IF configured
          THEN pc' = "fetch" /\ UNCHANGED outcome
          ELSE pc' = "end" /\ outcome' = "not_configured"
    /\ UNCHANGED <<file, file_at_start, last_good, html_content, fetches,
                   previous_data, is_first_overall_run, current_data,
                   notifications_to_send, idx, tasks, x_vars>>

\* mutant: an empty body is taken for a page
fetch_failed_none(html) == html.body = "none"

\* `if not html_content`
fetch_failed(html) == html.body \in {"none", "empty"}

\* lines 179-185
Fetch ==
    /\ pc = "fetch"
    /\ \E html \in FetchResults :
          /\ html_content' = html
          /\ fetches' = fetches + 1
          /\ IF fetch_failed(html)
             THEN /\ pc' = "diag"
                  /\ tasks' = <<[message |-> error_message,
                                 type |-> "Website Fetch Error",
                                 st |-> "pending"]>>
             ELSE /\ pc' = "load"
                  /\ UNCHANGED tasks
    /\ UNCHANGED <<outcome, file, file_at_start, last_good, previous_data,
                   is_first_overall_run, current_data, notifications_to_send,
                   idx, x_vars>>

\* lines 187-191
LoadPrevious ==
    /\ pc = "load"
    /\ previous_data' = load_previous_data(file)
    /\ current_data' = NoDict
    /\ notifications_to_send' = <<>>
    /\ is_first_overall_run' = ~ path_exists(file)
    /\ idx' = 1
    /\ pc' = "loop"
    /\ UNCHANGED <<outcome, file, file_at_start, last_good, html_content,
                   fetches, tasks, x_vars>>

\* one iteration of the loop, lines 193-240
ProcessSectionWith(suppress_on) ==
    /\ pc = "loop"
    /\ idx <= Len(DivOrder)
    /\ LET div_id == DivOrder[idx]
           content == parse_div_content(html_content, div_id)
           previous_content == dict_get(previous_data, div_id)
           notify == should_notify(is_first_overall_run, previous_content,
                                   content)
                     /\ ~ (suppress_on /\ is_suppressed(content))
       IN  /\ current_data' = record_current(current_data, div_id, content)
           /\ notifications_to_send' =
                 IF queues(notify, content)
                 THEN Append(notifications_to_send,
                             [message |-> content,
                              type |-> advisory_name(div_id)])
                 ELSE notifications_to_send
    /\ idx' = idx + 1
    /\ UNCHANGED <<pc, outcome, file, file_at_start, last_good, html_content,
                   fetches, previous_data, is_first_overall_run, tasks, x_vars>>

ProcessSection == ProcessSectionWith(FALSE)

ProcessSectionSuppress == ProcessSectionWith(TRUE)

\* lines 243-249: gather wraps every coroutine in a task
Dispatch ==
    /\ pc = "loop"
    /\ idx > Len(DivOrder)
    /\ IF notifications_to_send # <<>>
       THEN /\ tasks' = [i \in 1..Len(notifications_to_send) |->
                            NewTask(notifications_to_send[i])]
            /\ pc' = "gather"
       ELSE /\ pc' = "save"
            /\ UNCHANGED tasks
    /\ UNCHANGED <<outcome, file, file_at_start, last_good, html_content,
                   fetches, previous_data, is_first_overall_run, current_data,
                   notifications_to_send, idx, x_vars>>

SetTask(i, st) ==
    /\ tasks' = [tasks EXCEPT ![i].st = st]
    /\ UNCHANGED <<pc, outcome, file, file_at_start, last_good, html_content,
                   fetches, previous_data, is_first_overall_run, current_data,
                   notifications_to_send, idx, x_vars>>

\* lines 135-153, up to the first await
SendStart ==
    /\ pc \in {"gather", "diag"}
    /\ \E i \in 1..Len(tasks), bot_raises \in BOOLEAN :
          /\ tasks[i].st = "pending"
          /\ SetTask(i, after_start(tasks[i].message, bot_raises))

\* lines 152-156 and 166-167
SendMarkdown ==
    /\ pc \in {"gather", "diag"}
    /\ \E i \in 1..Len(tasks), result \in SendResults :
          /\ tasks[i].st = "md"
          /\ SetTask(i, after_markdown(result))

\* lines 157-165
SendPlain ==
    /\ pc \in {"gather", "diag"}
    /\ \E i \in 1..Len(tasks), result \in SendResults :
          /\ tasks[i].st = "plain"
          /\ SetTask(i, after_plain(result))

\* line 184 returns, line 185
DiagReturn ==
    /\ pc = "diag"
    /\ all_returned(tasks)
    /\ pc' = "end"
    /\ outcome' = "fetch_failed"
    /\ UNCHANGED <<file, file_at_start, last_good, html_content, fetches,
                   previous_data, is_first_overall_run, current_data,
                   notifications_to_send, idx, tasks, x_vars>>

\* the await of line 244 returns
GatherReturn ==
    /\ pc = "gather"
    /\ all_returned(tasks)
    /\ pc' = "save"
    /\ UNCHANGED <<outcome, file, file_at_start, last_good, html_content,
                   fetches, previous_data, is_first_overall_run, current_data,
                   notifications_to_send, idx, tasks, x_vars>>

\* an exception of a send reaches main (line 184 or 244): main ends with it,
\* asyncio.run cancels the tasks still in flight, line 300 prints it.  Every
\* task has run to its first await by then.
SendRaises ==
    /\ pc \in {"gather", "diag"}
    /\ \E i \in 1..Len(tasks) : tasks[i].st = "raised"
    /\ \A i \in 1..Len(tasks) : tasks[i].st # "pending"
    /\ tasks' = [i \in 1..Len(tasks) |->
                    IF tasks[i].st \in Terminal THEN tasks[i]
                    ELSE [tasks[i] EXCEPT !.st = "cancelled"]]
    /\ pc' = "end"
    /\ outcome' = "crashed"
    /\ UNCHANGED <<file, file_at_start, last_good, html_content, fetches,
                   previous_data, is_first_overall_run, current_data,
                   notifications_to_send, idx, x_vars>>

IsErrorText(div_id, content) ==
    content \in {NotFoundMsg(div_id), ParseErrorMsg(div_id)}

IsRealText(div_id, content) ==
    content # <<>> /\ content # None /\ ~ IsErrorText(div_id, content)

\* line 251
SaveCurrentData ==
    /\ pc = "save"
    /\ \E result \in SaveResults :
          /\ file' = save_current_data(file, current_data, result)
          /\ outcome' = IF result = "ok" THEN "saved" ELSE "save_failed"
          /\ last_good' =
                IF result = "ok"
                THEN [d \in DivIds |->
                        IF d \in DOMAIN current_data
                           /\ IsRealText(d, current_data[d])
                        THEN current_data[d] ELSE last_good[d]]
                ELSE last_good
    /\ pc' = "end"
    /\ UNCHANGED <<file_at_start, html_content, fetches, previous_data,
                   is_first_overall_run, current_data, notifications_to_send,
                   idx, tasks, x_vars>>

ResetRun(f) ==
    /\ pc' = "start"
    /\ file' = f
    /\ file_at_start' = f
    /\ html_content' = NoneHtml
    /\ fetches' = 0
    /\ previous_data' = NoDict
    /\ is_first_overall_run' = FALSE
    /\ current_data' = NoDict
    /\ notifications_to_send' = <<>>
    /\ idx' = 1
    /\ tasks' = <<>>
    /\ UNCHANGED <<outcome, last_good, x_vars>>

\* the scheduler starts the next run
NextRun ==
    /\ pc = "end"
    /\ ResetRun(file)

\* the next run starts without the cached file ("first run or cache miss")
CacheMiss ==
    /\ pc = "end"
    /\ path_exists(file)
    /\ ResetRun(Absent)

Next ==
    \/ CheckConfig
    \/ Fetch
    \/ LoadPrevious
    \/ ProcessSection
    \/ Dispatch
    \/ SendStart
    \/ SendMarkdown
    \/ SendPlain
    \/ DiagReturn
    \/ GatherReturn
    \/ SendRaises
    \/ SaveCurrentData
    \/ NextRun
    \/ CacheMiss

Spec == Init /\ [][Next]_vars

NextSuppress ==
    \/ CheckConfig
    \/ Fetch
    \/ LoadPrevious
    \/ ProcessSectionSuppress
    \/ Dispatch
    \/ SendStart
    \/ SendMarkdown
    \/ SendPlain
    \/ DiagReturn
    \/ GatherReturn
    \/ SendRaises
    \/ SaveCurrentData
    \/ NextRun
    \/ CacheMiss

SpecSuppress == Init /\ [][NextSuppress]_vars

---------------------------------------------------------------------------
(* One call of parse_div_content on a bounded page *)

MaxChildren == 4

\* direct children a content source may have
BodyNodes ==
    {TextNode(<<"a">>), TextNode(<<SP>>), TextNode(<<NL, SP, NL>>), BrNode,
     TagNode(<<"b">>), CommentNode(<<"c">>),
     DivNode(<<TextNode(<<"g">>)>>)}

RECURSIVE SeqsUpTo(_, _)
SeqsUpTo(S, n) ==
    IF n = 0 THEN {<<>>}
    ELSE LET shorter == SeqsUpTo(S, n - 1)
         IN  shorter \cup {Append(b, x) : b \in {c \in shorter : Len(c) = n - 1},
                                          x \in S}

Bodies == SeqsUpTo(BodyNodes, MaxChildren)

\* the children of <div id=...>: the body itself, the body wrapped in the
\* first child <div>, or that <div> between other children
Placements(body) ==
    {body,
     <<DivNode(body)>>,
     <<TextNode(<<"z">>), DivNode(body), DivNode(<<TextNode(<<"w">>)>>)>>}

ExtractInputs(div_id) ==
    {Page(TRUE, <<>>), Page(FALSE, <<>>)}
        \cup {Page(FALSE, div_id :> c) : c \in UNION {Placements(b) : b \in Bodies}}

InitExtract ==
    /\ RunInit
    /\ pc = "x_call"
    /\ x_div \in DivIds
    /\ x_html \in ExtractInputs(x_div)
    /\ x_out = None

Extract ==
    /\ pc = "x_call"
    /\ x_out' = parse_div_content(x_html, x_div)
    /\ pc' = "x_return"
    /\ UNCHANGED <<outcome, file, file_at_start, last_good, html_content,
                   fetches, previous_data, is_first_overall_run, current_data,
                   notifications_to_send, idx, tasks, x_html, x_div>>

NextExtract == Extract

SpecExtract == InitExtract /\ [][NextExtract]_vars

---------------------------------------------------------------------------
(* Properties *)

Pos(div_id) == CHOOSE i \in 1..Len(DivOrder) : DivOrder[i] = div_id

\* the loop has decided the section in this run
Evaluated(div_id) == Pos(div_id) < idx

\* the SectionText this run extracts for the section
Extracted(div_id) == parse_div_content(html_content, div_id)

\* a NotificationRequest for the section is queued in this run
Queued(div_id) ==
    \E i \in 1..Len(notifications_to_send) :
        notifications_to_send[i].type = advisory_name(div_id)

\* the snapshot read by this run has an entry for the section
HadEntry(div_id) ==
    file_at_start.kind = "json" /\ div_id \in DOMAIN file_at_start.data

\* C1: in a run that is not the first overall run, a section with an entry in
\* the previous snapshot is queued if and only if its current text differs
\* from that entry, also when the current text is a sentinel or empty.
C1_ChangeRule ==
    \A d \in DivIds :
        (Evaluated(d) /\ path_exists(file_at_start) /\ HadEntry(d))
            => (Queued(d) <=> Extracted(d) # file_at_start.data[d])

\* C2: with no snapshot before the run, or no entry for the section, the
\* section is queued exactly when its current text is real (not the
\* not-found or parse-error sentinel) and non-empty.
C2_FirstRunRule ==
    \A d \in DivIds :
        (Evaluated(d) /\ ~ HadEntry(d))
            => (Queued(d) <=> IsRealText(d, Extracted(d)))

SameAsSnapshot ==
    /\ idx > Len(DivOrder)
    /\ \A d \in DivIds : HadEntry(d) /\ Extracted(d) = file_at_start.data[d]

\* C3: a run that extracts, for every section, the text the persisted
\* snapshot already holds queues no notification and starts no send.
C3_Idempotence ==
    SameAsSnapshot => (notifications_to_send = <<>> /\ tasks = <<>>)

C3_Witness ==
    /\ SameAsSnapshot
    /\ pc = "end" /\ outcome = "saved"
    /\ \E d \in DivIds : IsRealText(d, Extracted(d))
    /\ \E d \in DivIds : IsErrorText(d, Extracted(d))

\* C4: after a run that fetched the page and wrote the snapshot, the file
\* holds exactly this run's extracted text for every configured section and
\* nothing else, whatever was decided and whatever the file held before.
C4_SnapshotComplete ==
    (pc = "end" /\ outcome = "saved")
        => /\ file.kind = "json"
           /\ DOMAIN file.data = DivIds
           /\ \A d \in DivIds : file.data[d] = Extracted(d)

C4_Witness ==
    /\ pc = "end" /\ outcome = "saved"
    /\ \E d \in DivIds :
          /\ HadEntry(d)
          /\ IsRealText(d, file_at_start.data[d])
          /\ file.data[d] = <<>>
          /\ ~ Queued(d)
    /\ \E d \in DivIds : IsErrorText(d, file.data[d])

FetchFailedRun == fetches = 1 /\ html_content.body \in {"none", "empty"}

\* C5: when the fetch fails (None or an empty body), the run leaves the
\* snapshot as it was, evaluates no section, fetches once, and hands the
\* notifier at most the one diagnostic message.
C5_FetchFailure ==
    /\ fetches <= 1
    /\ FetchFailedRun
          => /\ pc \in {"diag", "end"}
             /\ file = file_at_start
             /\ idx = 1
             /\ current_data = NoDict
             /\ notifications_to_send = <<>>
             /\ Len(tasks) = 1
             /\ tasks[1].type = "Website Fetch Error"

C5_Witness ==
    /\ FetchFailedRun
    /\ html_content.body = "empty"
    /\ pc = "end" /\ outcome = "fetch_failed"
    /\ file.kind = "json"
    /\ tasks[1].st = "sent"

\* C6: in a run that queued several notifications, no failure of one send
\* keeps another send from completing or the snapshot from being saved.
C6_DeliveryIsolation ==
    (pc = "end" /\ Len(notifications_to_send) >= 2)
        => /\ outcome \in {"saved", "save_failed"}
           /\ \A i \in 1..Len(tasks) : tasks[i].st # "cancelled"

QueuedRun == html_content.body = "markup"

\* C7: no send of a queued notification starts before every section is
\* decided, and the snapshot is written only after every queued send has
\* returned (sent, failed or skipped), never before or during dispatch.
C7_DispatchOrder ==
    /\ (QueuedRun /\ tasks # <<>>)
          => /\ idx > Len(DivOrder)
             /\ DOMAIN current_data = DivIds
             /\ Len(tasks) = Len(notifications_to_send)
    /\ pc \in {"loop", "gather"} => file = file_at_start
    /\ (pc = "save" \/ (pc = "end" /\ outcome \in {"saved", "save_failed"}))
          => \A i \in 1..Len(tasks) :
                 tasks[i].st \in {"sent", "failed", "skipped"}
    /\ file # file_at_start => (pc = "end" /\ outcome \in {"saved", "save_failed"})

\* the second queued send has completed while the first is still in flight
C7_Witness ==
    /\ pc = "gather"
    /\ Len(tasks) = 2
    /\ tasks[1].st = "plain"
    /\ tasks[2].st = "sent"

NLCount(s) == Cardinality({i \in 1..Len(s) : s[i] = NL})

RECURSIVE ExpectedNL(_)
ExpectedNL(children) ==
    IF Len(children) = 0 THEN 0
    ELSE LET e == Head(children)
         IN  (IF e.kind = "br" THEN 1
              ELSE IF e.kind \in {"text", "comment"} THEN NLCount(e.text)
              ELSE 0) + ExpectedNL(Tail(children))

IsNormalized(t) ==
    /\ \A i \in 1..Len(t) :
          t[i] \in Whitespace =>
              /\ 1 < i /\ i < Len(t)
              /\ t[i] # NL => (t[i - 1] # NL /\ t[i + 1] # NL)
    /\ \A i \in 1..(Len(t) - 2) :
          ~ (t[i] = NL /\ t[i + 1] = NL /\ t[i + 2] = NL)

Found == ~ x_html.raises /\ x_div \in DOMAIN x_html.divs

\* C9: parse_div_content returns a string that is the not-found sentinel, the
\* parse-error sentinel, or text whose lines carry no leading or trailing
\* whitespace, with no blank line first or last and never three newlines in
\* a row; every <br> child of the content source contributes a newline.
C9_ExtractorShape ==
    pc = "x_return"
        => /\ x_out # None
           /\ IF x_html.raises THEN x_out = ParseErrorMsg(x_div)
              ELSE IF ~ Found THEN x_out = NotFoundMsg(x_div)
              ELSE /\ IsNormalized(x_out)
                   /\ LET src == content_source_children(x_html.divs[x_div])
                      IN  NLCount(text_parts(src)) = ExpectedNL(src)

\* three line breaks in a row between two words, collapsed to one blank line
C9_Witness ==
    /\ pc = "x_return"
    /\ Found
    /\ LET src == content_source_children(x_html.divs[x_div])
       IN  /\ Len(src) = 4
           /\ src[1].kind = "text" /\ src[2].kind = "br"
           /\ NLCount(text_parts(src)) >= 3
    /\ x_out = <<"a", NL, NL, "a">>

\* C10: a sentinel extracted for a section replaces the real text T the
\* snapshot held, and a later run that extracts T again, with the sentinel
\* in the snapshot, queues T although T is the last good text.
C10_SentinelOverwrites ==
    \A d \in DivIds :
        /\ (pc = "end" /\ outcome = "saved" /\ HadEntry(d)
               /\ IsRealText(d, file_at_start.data[d])
               /\ IsErrorText(d, Extracted(d)))
              => /\ file.data[d] = Extracted(d)
                 /\ file.data[d] # file_at_start.data[d]
                 /\ last_good[d] = file_at_start.data[d]
        /\ (Evaluated(d) /\ HadEntry(d)
               /\ IsErrorText(d, file_at_start.data[d])
               /\ IsRealText(d, Extracted(d))
               /\ Extracted(d) = last_good[d])
              => \E i \in 1..Len(notifications_to_send) :
                    /\ notifications_to_send[i].type = advisory_name(d)
                    /\ notifications_to_send[i].message = last_good[d]

C10_Witness ==
    \E d \in DivIds :
        /\ pc = "end" /\ outcome = "saved"
        /\ HadEntry(d)
        /\ file_at_start.data[d] = ParseErrorMsg(d)
        /\ IsRealText(d, Extracted(d))
        /\ Extracted(d) = last_good[d]
        /\ Queued(d)

===========================================================================
